---------------------------- MODULE Spec2Model ----------------------------
(***************************************************************************)
(* pyblossom: the Python binding of a Bloom filter (src/pyblossom/         *)
(* pyblossom.c) and its checksummed wire format.                           *)
(*                                                                         *)
(* Numbers wider than 31 bits are kept as pairs of 16-bit halves           *)
(* <<hi, lo>> (a uint32_t) or as little-endian sequences of 16-bit limbs   *)
(* (a Py_ssize_t), so that every conversion of the C code keeps its width. *)
(* An error rate (a C double) is kept as an exact ratio <<num, den>>.      *)
(***************************************************************************)
EXTENDS Integers, Sequences, FiniteSets, TLC

VARIABLES
    filter,       \* the Filter object f and the struct bloom it owns
    heap,         \* the bit arrays (bf) that are currently allocated
    nallocs,      \* how many bit arrays were allocated so far
    views,        \* memoryviews handed out over a bit array
    uaf,          \* a view was used on a bit array that had been freed
    seedExports,  \* views acquired on the last seed object and not released
    result,       \* what the last constructor or __init__ call reported
    added,        \* members passed to add() since f was constructed
    answer,       \* the last contains() call and its answer
    dumped,       \* the last dump(f) string and f's fields when it was taken
    loaded,       \* the last load() call: its input and its outcome
    scan          \* a checksum computation in progress, byte by byte

vars == <<filter, heap, nallocs, views, uaf, seedExports, result, added,
          answer, dumped, loaded, scan>>

(***************************************************************************)
(* Bounds of the model.                                                    *)
(***************************************************************************)
MaxInits == 2      \* bit arrays allocated in one run
MaxViews == 1      \* distinct memoryviews outstanding at once
MaxFlipLen == 2    \* payload lengths read with every single bit inverted
ScanChunk == 8     \* bytes handed to one crc32 call of a checksum in progress

(***************************************************************************)
(* Machine arithmetic.                                                     *)
(***************************************************************************)
Pow2(n) == 2 ^ n

\* A uint32_t is the pair <<hi, lo>> of its halves, each in 0..65535.

\* The value an int holds after a uint32_t is read as one (two's complement).
ToInt32(x) == IF x[1] >= 32768 THEN (x[1] - 65536) * 65536 + x[2] ELSE x[1] * 65536 + x[2]
\* The uint32_t that holds a non-negative int.
FromInt(n) == <<n \div 65536, n % 65536>>

\* A Py_ssize_t as four 16-bit limbs, least significant first.
Ssize(n) == <<n % 65536, n \div 65536, 0, 0>>
\* (int)len: the low 32 bits, read as a signed int.
SsizeToInt(w) == ToInt32(<<w[2], w[1]>>)

(***************************************************************************)
(* Exclusive or.  Xor4Table holds it for every pair of 4-bit values,       *)
(* worked out bit by bit; wider values are combined four bits at a time.   *)
(***************************************************************************)
RECURSIVE XorBits(_, _)
XorBits(a, b) ==
    IF a = 0 THEN b
    ELSE IF b = 0 THEN a
    ELSE ((a + b) % 2) + 2 * XorBits(a \div 2, b \div 2)

Xor4Table == [n \in 0..255 |-> XorBits(n \div 16, n % 16)]
Xor4(a, b) == Xor4Table[a * 16 + b]
Xor8(a, b) == Xor4(a \div 16, b \div 16) * 16 + Xor4(a % 16, b % 16)
Xor16(a, b) == Xor8(a \div 256, b \div 256) * 256 + Xor8(a % 256, b % 256)
Xor32(x, y) == <<Xor16(x[1], y[1]), Xor16(x[2], y[2])>>

(***************************************************************************)
(* crc32.c: the 32-bit CRC of the standard (reflected) polynomial, one     *)
(* table look-up per byte; crc32(0, buf, len) starts from the state 0.     *)
(***************************************************************************)
CrcPoly == <<60856, 33568>>   \* 0xEDB88320

\* The table entry of a byte: eight shifts, the polynomial folded in
\* whenever a one is shifted out.
RECURSIVE CrcTableEntry(_, _)
CrcTableEntry(c, k) ==
    IF k = 0 THEN c
    ELSE CrcTableEntry(
             IF c[2] % 2 = 1
             THEN <<XorBits(c[1] \div 2, CrcPoly[1]),
                    XorBits((c[2] \div 2) + (c[1] % 2) * 32768, CrcPoly[2])>>
             ELSE <<c[1] \div 2, (c[2] \div 2) + (c[1] % 2) * 32768>>,
             k - 1)

crc_table == [n \in 0..255 |-> CrcTableEntry(<<0, n>>, 8)]

\* One round of the loop: crc = crc_table[(crc ^ byte) & 0xFF] ^ (crc >> 8).
crc32_byte(c, byte) ==
    Xor32(crc_table[Xor8(c[2] % 256, byte)], <<c[1] \div 256, (c[2] \div 256) + (c[1] % 256) * 256>>)

RECURSIVE crc32_loop(_, _, _)
crc32_loop(c, buf, i) ==
    IF i > Len(buf) THEN c ELSE crc32_loop(crc32_byte(c, buf[i]), buf, i + 1)

Not32(x) == <<65535 - x[1], 65535 - x[2]>>

crc32(crc, buf) == Not32(crc32_loop(Not32(crc), buf, 1))

\* (checksum32 & 0xFFFF) ^ (checksum32 >> 16), as a uint16_t.
Fold16(checksum32) == Xor16(checksum32[2], checksum32[1])

compute_checksum(buf) == Fold16(crc32(<<0, 0>>, buf))

(***************************************************************************)
(* Network byte order: what htons/htonl leave in memory, and what ntohs/   *)
(* ntohl make of the bytes at the read position.                           *)
(***************************************************************************)
htons(v) == <<v \div 256, v % 256>>
htonl(x) == htons(x[1]) \o htons(x[2])

read_uint16(buffer, pos) == buffer[pos + 1] * 256 + buffer[pos + 2]

read_uint32(buffer, pos) == <<read_uint16(buffer, pos), read_uint16(buffer, pos + 2)>>

(***************************************************************************)
(* libblossom (bloom.h): sizing, insertion and look-up.  An error rate is  *)
(* the ratio <<num, den>>; natural logarithms are taken in millionths.     *)
(***************************************************************************)
Ln2SqMicro == 480453
Ln2Micro == 693147

LnMicro(n) ==
    CASE n = 1 -> 0
      [] n = 2 -> 693147
      [] n = 5 -> 1609438
      [] n = 10 -> 2302585
      [] n = 65535 -> 11090340
      [] n = 131072 -> 11783502

CeilDiv(a, b) == (a + b - 1) \div b

ErrorValid(error) == error[1] > 0 /\ error[2] > 0 /\ error[1] < error[2]

\* bit_count = ceil(-capacity * ln(error) / (ln 2)^2), at least 1.
bloom_bits(entries, error) ==
    LET n == CeilDiv(entries * (LnMicro(error[2]) - LnMicro(error[1])), Ln2SqMicro)
    IN  IF n < 1 THEN 1 ELSE n

bloom_bytes(entries, error) == CeilDiv(bloom_bits(entries, error), 8)

\* hash_count = round((bit_count / capacity) * ln 2), at least 1.
bloom_hashes(entries, error) ==
    LET k == (2 * bloom_bits(entries, error) * Ln2Micro + entries * 1000000)
                 \div (2 * entries * 1000000)
    IN  IF k < 1 THEN 1 ELSE k

Zeros(n) == [i \in 1..n |-> 0]

\* rc = 0 and the new struct, or rc = 1 and the struct as it was.
bloom_init(bloom, entries, error) ==
    IF entries < 1 \/ ~ErrorValid(error)
    THEN [rc |-> 1, bloom |-> bloom]
    ELSE [rc |-> 0,
          bloom |-> [entries |-> entries, error |-> error,
                     bits |-> bloom_bits(entries, error),
                     bytes |-> bloom_bytes(entries, error),
                     hashes |-> bloom_hashes(entries, error),
                     bf |-> Zeros(bloom_bytes(entries, error))]]

RECURSIVE bloom_hash(_, _, _)
bloom_hash(h, buf, i) ==
    IF i > Len(buf) THEN h ELSE bloom_hash((h * 31 + buf[i] + 7) % 65521, buf, i + 1)

\* The i-th probe of a member: (h1 + i * h2) mod bit_count.
Probe(bloom, buf, i) ==
    LET h1 == bloom_hash(5381, buf, 1)
        h2 == bloom_hash(h1, buf, 1)
    IN  (h1 + i * h2) % bloom.bits

TestBit(bf, p) == (bf[(p \div 8) + 1] \div Pow2(p % 8)) % 2 = 1
SetBit(bf, p) == IF TestBit(bf, p) THEN bf ELSE [bf EXCEPT ![(p \div 8) + 1] = @ + Pow2(p % 8)]

RECURSIVE SetProbes(_, _, _, _)
SetProbes(bloom, bf, buf, i) ==
    IF i >= bloom.hashes THEN bf
    ELSE SetProbes(bloom, SetBit(bf, Probe(bloom, buf, i)), buf, i + 1)

bloom_add(bloom, buf) == [bloom EXCEPT !.bf = SetProbes(bloom, bloom.bf, buf, 0)]

bloom_check(bloom, buf) == \A i \in 0..(bloom.hashes - 1) : TestBit(bloom.bf, Probe(bloom, buf, i))

(***************************************************************************)
(* The Filter object: Filter_new, Filter_init, Filter_dealloc.             *)
(***************************************************************************)
NoBloom == [entries |-> 0, error |-> <<0, 1>>, bits |-> 0, bytes |-> 0, hashes |-> 0, bf |-> <<>>]
NoFilter == [st |-> "none", alloc |-> 0, bloom |-> NoBloom]
NoSeed == [kind |-> "null", len |-> Ssize(0), data |-> <<>>]
NoResult == [call |-> "none", entries |-> 0, error |-> <<0, 1>>, seed |-> NoSeed, rc |-> 0, msg |-> ""]
NoAnswer == [member |-> <<>>, found |-> FALSE, asked |-> FALSE]
NoDump == [buf |-> <<>>, of |-> NoBloom, taken |-> FALSE]
NoLoad == [input |-> <<>>, called |-> FALSE, rc |-> 0, msg |-> "", st |-> "none",
           bloom |-> NoBloom, fields |-> 0]
NoScan == [len |-> 0, fill |-> 0, at |-> 0, bit |-> 0, pos |-> 0,
           crc |-> <<0, 0>>, crcFlipped |-> <<0, 0>>, stored |-> 0, computed |-> 0,
           msg |-> "", done |-> FALSE]

\* memcpy(bloom_struct->bf, buf.buf, bloom_struct->bytes)
memcpy(data, n) == [i \in 1..n |-> data[i]]

\* Filter_init on the struct `bloom` of self: the return code, the message
\* set, the struct afterwards, whether bloom_init allocated a bit array, and
\* how many views PyObject_GetBuffer handed out (none is released).
Filter_init(bloom, entries, error, buf_src) ==
    LET r == bloom_init(bloom, entries, error)
    IN  IF r.rc # 0
        THEN [rc |-> -1, msg |-> "internal initialization failed", bloom |-> r.bloom,
              allocated |-> FALSE, acquired |-> 0]
        ELSE IF buf_src.kind = "null"
        THEN [rc |-> 0, msg |-> "", bloom |-> r.bloom, allocated |-> TRUE, acquired |-> 0]
        ELSE IF buf_src.kind = "nobuffer"
        THEN [rc |-> -1, msg |-> "buffer interface is not supported by provided data type",
              bloom |-> r.bloom, allocated |-> TRUE, acquired |-> 0]
        ELSE IF buf_src.kind = "noncontig"
        THEN [rc |-> -1, msg |-> "could not get buffer from provided data type",
              bloom |-> r.bloom, allocated |-> TRUE, acquired |-> 0]
        ELSE IF SsizeToInt(buf_src.len) # r.bloom.bytes
        THEN [rc |-> -1, msg |-> "invalid data length", bloom |-> r.bloom,
              allocated |-> TRUE, acquired |-> 1]
        ELSE [rc |-> 0, msg |-> "",
              bloom |-> [r.bloom EXCEPT !.bf = memcpy(buf_src.data, r.bloom.bytes)],
              allocated |-> TRUE, acquired |-> 1]

(***************************************************************************)
(* Inputs.                                                                 *)
(***************************************************************************)
ValidParams == {<<1, <<1, 2>>>>, <<5, <<1, 2>>>>, <<5, <<2, 5>>>>, <<1, <<1, 131072>>>>}
InvalidParams == {<<0, <<1, 2>>>>, <<-1, <<1, 2>>>>, <<1, <<1, 1>>>>, <<1, <<0, 1>>>>}
Params == ValidParams \cup InvalidParams

Members == {<<97>>, <<98, 99>>}

SeedFills == {0, 254}
SeedData(fill, n) == [i \in 1..n |-> (fill + i) % 256]

\* The byte length Filter_init will ask of a seed for these parameters.
WantedBytes(entries, error) ==
    IF entries < 1 \/ ~ErrorValid(error) THEN 1 ELSE bloom_bytes(entries, error)

\* Seed objects: none, an object without the buffer interface, one whose
\* buffer is not contiguous, byte strings one shorter, exact and one longer,
\* and a byte string of 2^32 + n bytes (of which only the first n are kept).
SeedsFor(n) ==
    {NoSeed,
     [kind |-> "nobuffer", len |-> Ssize(0), data |-> <<>>],
     [kind |-> "noncontig", len |-> Ssize(n), data |-> SeedData(0, n)]}
    \cup {[kind |-> "buffer", len |-> Ssize(m), data |-> SeedData(fill, m)] :
             m \in {n - 1, n, n + 1}, fill \in SeedFills}
    \cup {[kind |-> "buffer", len |-> <<n % 65536, n \div 65536, 1, 0>>, data |-> SeedData(0, n)]}

\* (uint16_t)(1.0 / error): the quotient cut towards zero when it fits in 16
\* bits; the conversion is undefined otherwise, and then any of these.
EncodeRate(error) ==
    LET q == error[2] \div error[1]
    IN  IF q <= 65535 THEN {q} ELSE {q % 65536, 65535, 0}

(***************************************************************************)
(* Serialization: dump, dump_ex, load, instantiate_filter.                 *)
(***************************************************************************)
\* The string dump returns for a struct whose error rate converts to enc.
dump_string(bloom, enc) ==
    htons(compute_checksum(bloom.bf)) \o htons(enc) \o htonl(FromInt(bloom.entries)) \o bloom.bf

\* instantiate_filter building the object from the seed without tp_init's verdict.
instantiate_filter_keep(cardinality, error_rate, data) ==
    LET r == Filter_init(NoBloom, ToInt32(cardinality), <<1, error_rate>>,
                         [kind |-> "buffer", len |-> Ssize(Len(data)), data |-> data])
    IN  [rc |-> r.rc, msg |-> r.msg, st |-> IF r.allocated THEN "live" ELSE "none",
         bloom |-> r.bloom, acquired |-> r.acquired]

\* Py_BuildValue("(ids#)", ...), tp_new, tp_init, and Py_DECREF on failure.
instantiate_filter(cardinality, error_rate, data) ==
    LET r == Filter_init(NoBloom, ToInt32(cardinality), <<1, error_rate>>,
                         [kind |-> "buffer", len |-> Ssize(Len(data)), data |-> data])
    IN  IF r.rc < 0
        THEN [rc |-> -1, msg |-> r.msg, st |-> "none", bloom |-> NoBloom, acquired |-> r.acquired]
        ELSE [rc |-> 0, msg |-> "", st |-> "live", bloom |-> r.bloom, acquired |-> r.acquired]

HeaderSize == 8

\* load without the truncation guard on buffers that hold a whole header.
load_result_lax(buffer) ==
    IF Len(buffer) < HeaderSize
    THEN [input |-> buffer, called |-> TRUE, rc |-> -1, msg |-> "incomplete payload",
          st |-> "none", bloom |-> NoBloom, fields |-> 0, acquired |-> 0]
    ELSE LET data == SubSeq(buffer, HeaderSize + 1, Len(buffer))
             r == instantiate_filter(read_uint32(buffer, 4), read_uint16(buffer, 2), data)
         IN  IF compute_checksum(data) # read_uint16(buffer, 0)
             THEN [input |-> buffer, called |-> TRUE, rc |-> -1, msg |-> "checksum mismatch",
                   st |-> "none", bloom |-> NoBloom, fields |-> 3, acquired |-> 0]
             ELSE [input |-> buffer, called |-> TRUE, rc |-> r.rc, msg |-> r.msg,
                   st |-> r.st, bloom |-> r.bloom, fields |-> 3, acquired |-> r.acquired]

\* What load makes of a buffer: the error set or the Filter returned, how
\* many header fields it read, and the seed views it acquired.  buflen is
\* taken to be the length of the string passed, as "s#" reports it.
load_result(buffer) ==
    IF Len(buffer) < HeaderSize + 1
    THEN [input |-> buffer, called |-> TRUE, rc |-> -1, msg |-> "incomplete payload",
          st |-> "none", bloom |-> NoBloom, fields |-> 0, acquired |-> 0]
    ELSE LET checksum == read_uint16(buffer, 0)
             error_rate == read_uint16(buffer, 2)
             cardinality == read_uint32(buffer, 4)
             data == SubSeq(buffer, HeaderSize + 1, Len(buffer))
             r == instantiate_filter(cardinality, error_rate, data)
         IN  IF compute_checksum(data) # checksum
             THEN [input |-> buffer, called |-> TRUE, rc |-> -1, msg |-> "checksum mismatch",
                   st |-> "none", bloom |-> NoBloom, fields |-> 3, acquired |-> 0]
             ELSE [input |-> buffer, called |-> TRUE, rc |-> r.rc, msg |-> r.msg,
                   st |-> r.st, bloom |-> r.bloom, fields |-> 3, acquired |-> r.acquired]

(***************************************************************************)
(* Operations.                                                             *)
(***************************************************************************)
Live == filter.st = "live"

\* Filter(entries, error, data): Filter_new, then Filter_init; when that
\* fails the type call drops the new object, and Filter_dealloc frees it.
Filter_construct(entries, error, buf_src) ==
    \E r \in {Filter_init(NoBloom, entries, error, buf_src)} :
    \E a \in {IF r.allocated THEN nallocs + 1 ELSE nallocs} :
        /\ filter.st = "none"
        /\ a <= MaxInits
        /\ filter' = IF r.rc = 0 THEN [st |-> "live", alloc |-> a, bloom |-> r.bloom] ELSE NoFilter
        /\ heap' = IF r.rc = 0 THEN heap \cup {a} ELSE heap
        /\ nallocs' = a
        /\ seedExports' = r.acquired
        /\ result' = [call |-> "new", entries |-> entries, error |-> error, seed |-> buf_src,
                      rc |-> r.rc, msg |-> r.msg]
        /\ added' = {}
        /\ answer' = NoAnswer
        /\ UNCHANGED <<views, uaf, dumped, loaded, scan>>

\* f.__init__(entries, error, data) on a Filter that exists: bloom_init
\* overwrites the struct, and the bit array it held stays allocated.
Filter_reinit(entries, error, buf_src) ==
    \E r \in {Filter_init(filter.bloom, entries, error, buf_src)} :
    \E a \in {IF r.allocated THEN nallocs + 1 ELSE nallocs} :
        /\ Live
        /\ a <= MaxInits
        /\ filter' = [st |-> "live", alloc |-> IF r.allocated THEN a ELSE filter.alloc,
                      bloom |-> r.bloom]
        /\ heap' = IF r.allocated THEN heap \cup {a} ELSE heap
        /\ nallocs' = a
        /\ seedExports' = r.acquired
        /\ result' = [call |-> "init", entries |-> entries, error |-> error, seed |-> buf_src,
                      rc |-> r.rc, msg |-> r.msg]
        /\ UNCHANGED <<views, uaf, added, answer, dumped, loaded, scan>>

\* The last reference to f goes: bloom_free releases the bit array.
Filter_dealloc ==
    /\ Live
    /\ filter' = NoFilter
    /\ heap' = heap \ {filter.alloc}
    /\ UNCHANGED <<nallocs, views, uaf, seedExports, result, added, answer,
                   dumped, loaded, scan>>

\* add inserting all of the member but its first byte.
Filter_add_tail(buffer) ==
    /\ Live
    /\ filter' = [filter EXCEPT !.bloom = bloom_add(filter.bloom, Tail(buffer))]
    /\ added' = added \cup {buffer}
    /\ UNCHANGED <<heap, nallocs, views, uaf, seedExports, result, answer,
                   dumped, loaded, scan>>

Filter_add(buffer) ==
    /\ Live
    /\ filter' = [filter EXCEPT !.bloom = bloom_add(filter.bloom, buffer)]
    /\ added' = added \cup {buffer}
    /\ UNCHANGED <<heap, nallocs, views, uaf, seedExports, result, answer,
                   dumped, loaded, scan>>

Filter_check(buffer) ==
    /\ Live
    /\ answer' = [member |-> buffer, found |-> bloom_check(filter.bloom, buffer), asked |-> TRUE]
    /\ UNCHANGED <<filter, heap, nallocs, views, uaf, seedExports, result, added, dumped, loaded, scan>>

\* PyBuffer_FillInfo(&pybuf, NULL, bf, bytes, 0, PyBUF_CONTIG): a writable
\* memoryview over the bit array that holds no reference to the Filter.
Filter_get_buffer ==
    /\ Live
    /\ Cardinality(views \cup {[alloc |-> filter.alloc, readonly |-> FALSE]}) <= MaxViews
    /\ views' = views \cup {[alloc |-> filter.alloc, readonly |-> FALSE]}
    /\ UNCHANGED <<filter, heap, nallocs, uaf, seedExports, result, added, answer,
                   dumped, loaded, scan>>

\* dump_ex(f): (entries, error, read-only memoryview), the view again with
\* no owner.
dump_ex ==
    /\ Live
    /\ Cardinality(views \cup {[alloc |-> filter.alloc, readonly |-> TRUE]}) <= MaxViews
    /\ views' = views \cup {[alloc |-> filter.alloc, readonly |-> TRUE]}
    /\ UNCHANGED <<filter, heap, nallocs, uaf, seedExports, result, added, answer,
                   dumped, loaded, scan>>

\* A read through a view: of live memory, or of memory that was freed.
view_read(v) ==
    /\ v \in views
    /\ uaf' = (uaf \/ v.alloc \notin heap)
    /\ UNCHANGED <<filter, heap, nallocs, views, seedExports, result, added, answer,
                   dumped, loaded, scan>>

\* A write of one byte through a writable view.
view_write(v, i, byte) ==
    /\ v \in views
    /\ ~v.readonly
    /\ uaf' = (uaf \/ v.alloc \notin heap)
    /\ IF Live /\ v.alloc = filter.alloc /\ i <= filter.bloom.bytes
       THEN filter' = [filter EXCEPT !.bloom.bf[i] = byte]
       ELSE UNCHANGED filter
    /\ UNCHANGED <<heap, nallocs, views, seedExports, result, added, answer,
                   dumped, loaded, scan>>

dump ==
    /\ Live
    /\ \E enc \in EncodeRate(filter.bloom.error) :
           dumped' = [buf |-> dump_string(filter.bloom, enc), of |-> filter.bloom, taken |-> TRUE]
    /\ UNCHANGED <<filter, heap, nallocs, views, uaf, seedExports, result, added, answer, loaded, scan>>

load(buffer) ==
    \E r \in {load_result(buffer)} :
        /\ loaded' = [input |-> r.input, called |-> r.called, rc |-> r.rc, msg |-> r.msg,
                      st |-> r.st, bloom |-> r.bloom, fields |-> r.fields]
        /\ seedExports' = r.acquired
        /\ UNCHANGED <<filter, heap, nallocs, views, uaf, result, added, answer,
                       dumped, scan>>

(***************************************************************************)
(* Buffers handed to load.                                                 *)
(***************************************************************************)
Min(a, b) == IF a < b THEN a ELSE b

\* buffer with bit `bit` of its byte at index i inverted.
FlipByte(byte, bit) == IF (byte \div Pow2(bit)) % 2 = 1 THEN byte - Pow2(bit) ELSE byte + Pow2(bit)
FlipBit(buffer, i, bit) == [buffer EXCEPT ![i] = FlipByte(@, bit)]

\* A dumped string cut short, and one with a bit of its first payload byte
\* inverted.
Truncations(buffer) == {SubSeq(buffer, 1, n) : n \in 0..(Len(buffer) - 1)}
Flips(buffer) ==
    {FlipBit(buffer, HeaderSize + 1, bit) : bit \in {0, 7}}

\* Buffers made by hand: any reciprocal, any cardinality, a checksum that
\* matches the payload or is off by one.
CraftRates == {0, 1, 2}
CraftCards == {<<0, 0>>, <<0, 1>>, <<0, 5>>, <<32768, 0>>, <<65535, 65535>>}
CraftPayloads == {<<255>>, <<1, 2>>}
Crafted(offs) ==
    {htons((compute_checksum(data) + off) % 65536) \o htons(rate) \o htonl(card) \o data :
         off \in offs, rate \in CraftRates, card \in CraftCards, data \in CraftPayloads}

LoadInputs ==
    Crafted({0, 1}) \cup (IF dumped.taken
                          THEN {dumped.buf} \cup Truncations(dumped.buf) \cup Flips(dumped.buf)
                          ELSE {})

(***************************************************************************)
(* The life of a Filter: construction, every method, re-initialisation,    *)
(* the views handed out, and the release of the object.                    *)
(***************************************************************************)
Init ==
    /\ filter = NoFilter
    /\ heap = {}
    /\ nallocs = 0
    /\ views = {}
    /\ uaf = FALSE
    /\ seedExports = 0
    /\ result = NoResult
    /\ added = {}
    /\ answer = NoAnswer
    /\ dumped = NoDump
    /\ loaded = NoLoad
    /\ scan = NoScan

LifeParams == {<<1, <<1, 2>>>>, <<5, <<2, 5>>>>}
ReinitParams == {<<5, <<1, 2>>>>, <<0, <<1, 2>>>>}

New == \E p \in LifeParams : Filter_construct(p[1], p[2], NoSeed)
InitAgain ==
    \E p \in ReinitParams : \E s \in {NoSeed, [kind |-> "buffer", len |-> Ssize(0), data |-> <<>>]} :
        Filter_reinit(p[1], p[2], s)
Add == \E m \in Members : Filter_add(m)
Contains == \E m \in Members : Filter_check(m)
ViewRead == \E v \in views : view_read(v)
ViewWrite == \E v \in views : view_write(v, 1, 0)
LoadDumped == dumped.taken /\ load(dumped.buf)

Next ==
    \/ New
    \/ InitAgain
    \/ Filter_dealloc
    \/ Add
    \/ Contains
    \/ Filter_get_buffer
    \/ dump_ex
    \/ ViewRead
    \/ ViewWrite
    \/ dump
    \/ LoadDumped

Spec == Init /\ [][Next]_vars

(***************************************************************************)
(* Construction on its own: every parameter pair with every seed object,   *)
(* through the constructor and through __init__ on an existing Filter.     *)
(***************************************************************************)
Construct ==
    \E p \in Params : \E s \in SeedsFor(WantedBytes(p[1], p[2])) : Filter_construct(p[1], p[2], s)
Reinit ==
    \E p \in Params : \E s \in SeedsFor(WantedBytes(p[1], p[2])) : Filter_reinit(p[1], p[2], s)

NextInit ==
    \/ Construct
    \/ Reinit
    \/ Filter_dealloc

SpecInit == Init /\ [][NextInit]_vars

(***************************************************************************)
(* Membership on its own: a Filter built from valid parameters, then any   *)
(* sequence of add, contains, dump and dump_ex.                            *)
(***************************************************************************)
InitBuilt ==
    /\ \E p \in ValidParams :
           /\ filter = [st |-> "live", alloc |-> 1,
                        bloom |-> Filter_init(NoBloom, p[1], p[2], NoSeed).bloom]
           /\ result = [call |-> "new", entries |-> p[1], error |-> p[2], seed |-> NoSeed,
                        rc |-> 0, msg |-> ""]
    /\ heap = {1}
    /\ nallocs = 1
    /\ views = {}
    /\ uaf = FALSE
    /\ seedExports = 0
    /\ added = {}
    /\ answer = NoAnswer
    /\ dumped = NoDump
    /\ loaded = NoLoad
    /\ scan = NoScan

NextMembership ==
    \/ Add
    \/ Contains
    \/ dump
    \/ dump_ex

SpecMembership == InitBuilt /\ [][NextMembership]_vars

(***************************************************************************)
(* The wire codec on its own: a Filter built from valid parameters, then   *)
(* any sequence of add, dump and load, load being given dumped strings,    *)
(* damaged ones and buffers made by hand.                                  *)
(***************************************************************************)
Load == \E b \in LoadInputs : load(b)

NextCodec ==
    \/ Add
    \/ dump
    \/ Load

SpecCodec == InitBuilt /\ [][NextCodec]_vars
(***************************************************************************)
(* The checksum on its own: load reading a dumped string in which one bit  *)
(* of the payload was inverted.  scan.crc is the CRC of the payload as     *)
(* dumped (the header's checksum field is its fold), scan.crcFlipped the   *)
(* CRC load computes over what it was given; both advance ScanChunk bytes  *)
(* per crc32 call, so that payloads of thousands of bytes can be read.     *)
(***************************************************************************)
LongPayload == 21 * 1024
ScanFills == {0, 165}

InitChecksum ==
    /\ filter = NoFilter
    /\ heap = {}
    /\ nallocs = 0
    /\ views = {}
    /\ uaf = FALSE
    /\ seedExports = 0
    /\ result = NoResult
    /\ added = {}
    /\ answer = NoAnswer
    /\ dumped = NoDump
    /\ loaded = NoLoad
    /\ \E n \in (1..MaxFlipLen) \cup {LongPayload} :
       \E f \in (IF n = LongPayload THEN {0} ELSE ScanFills) :
       \E a \in (IF n = LongPayload THEN {1} ELSE 1..n) :
       \E b \in 0..7 :
           scan = [NoScan EXCEPT !.len = n, !.fill = f, !.at = a, !.bit = b]

\* crc32(crc, data + pos, n) over the next n bytes of both payloads.
scan_step ==
    /\ scan.pos < scan.len
    /\ LET n == Min(ScanChunk, scan.len - scan.pos)
           asDumped == [i \in 1..n |-> scan.fill]
           asGiven == [i \in 1..n |-> IF scan.pos + i = scan.at
                                      THEN FlipByte(scan.fill, scan.bit) ELSE scan.fill]
       IN  scan' = [scan EXCEPT !.pos = @ + n,
                                !.crc = crc32(@, asDumped),
                                !.crcFlipped = crc32(@, asGiven)]
    /\ UNCHANGED <<filter, heap, nallocs, views, uaf, seedExports, result, added, answer, dumped, loaded>>

\* load comparing the checksum field with no regard to what it computed.
scan_finish_accept ==
    /\ scan.len > 0
    /\ scan.pos = scan.len
    /\ ~scan.done
    /\ scan' = [scan EXCEPT !.done = TRUE, !.stored = Fold16(scan.crc),
                            !.computed = Fold16(scan.crcFlipped), !.msg = ""]
    /\ UNCHANGED <<filter, heap, nallocs, views, uaf, seedExports, result, added, answer, dumped, loaded>>

\* load comparing the header's checksum field with the fold it computed.
scan_finish ==
    /\ scan.len > 0
    /\ scan.pos = scan.len
    /\ ~scan.done
    /\ scan' = [scan EXCEPT !.done = TRUE, !.stored = Fold16(scan.crc),
                            !.computed = Fold16(scan.crcFlipped),
                            !.msg = IF Fold16(scan.crcFlipped) # Fold16(scan.crc)
                                    THEN "checksum mismatch" ELSE ""]
    /\ UNCHANGED <<filter, heap, nallocs, views, uaf, seedExports, result, added, answer, dumped, loaded>>

NextChecksum ==
    \/ scan_step
    \/ scan_finish

SpecChecksum == InitChecksum /\ [][NextChecksum]_vars
(***************************************************************************)
(* Properties.                                                             *)
(***************************************************************************)
PayloadOf(buffer) == SubSeq(buffer, HeaderSize + 1, Len(buffer))

\* C1 (SpecCodec): round-trip identity.  Whenever load is given the string
\* dump returned for a Filter, it succeeds and returns a Filter whose bit
\* array equals, byte for byte, the one dumped and whose capacity equals the
\* capacity dumped.
C1_RoundTrip ==
    (loaded.called /\ dumped.taken /\ loaded.input = dumped.buf)
        => /\ loaded.rc = 0
           /\ loaded.st = "live"
           /\ loaded.bloom.bf = dumped.of.bf
           /\ loaded.bloom.entries = dumped.of.entries

\* C2 (SpecCodec): truncation rejection.  load on a buffer of 0 through 8
\* bytes fails with "incomplete payload", reads no header field and returns
\* no Filter; load on a buffer of 9 bytes or more never fails with
\* "incomplete payload".
C2_TruncationRejected ==
    loaded.called
        => /\ (Len(loaded.input) \in 0..8) <=> (loaded.msg = "incomplete payload")
           /\ (Len(loaded.input) \in 0..8)
                  => (loaded.rc = -1 /\ loaded.fields = 0 /\ loaded.st = "none")

\* C2 witness: load was given the first 8 bytes of a dumped string and failed
\* with "incomplete payload".
C2_Witness ==
    /\ loaded.called
    /\ dumped.taken
    /\ loaded.input = SubSeq(dumped.buf, 1, 8)
    /\ loaded.msg = "incomplete payload"

\* C3 (SpecCodec): all-or-nothing load.  For a buffer of 9 bytes or more,
\* whatever its header, load either fails with an error and leaves no Filter,
\* or returns a Filter whose capacity is the header's cardinality, whose bit
\* array has ceil(bit_count / 8) bytes, as many as the payload, and equals
\* the payload byte for byte.
C3_AllOrNothing ==
    (loaded.called /\ Len(loaded.input) >= 9)
        => \/ /\ loaded.rc = -1
              /\ loaded.msg # ""
              /\ loaded.st = "none"
              /\ loaded.bloom = NoBloom
           \/ /\ loaded.rc = 0
              /\ loaded.msg = ""
              /\ loaded.st = "live"
              /\ FromInt(loaded.bloom.entries) = read_uint32(loaded.input, 4)
              /\ loaded.bloom.bytes = CeilDiv(loaded.bloom.bits, 8)
              /\ Len(loaded.bloom.bf) = loaded.bloom.bytes
              /\ loaded.bloom.bytes = Len(loaded.input) - 8
              /\ loaded.bloom.bf = PayloadOf(loaded.input)

\* C3 witness: load returned a Filter for a buffer made by hand (reciprocal
\* 2, cardinality 5, payload 0xFF), and the Filter holds that payload.
C3_Witness ==
    /\ loaded.called
    /\ loaded.rc = 0
    /\ loaded.st = "live"
    /\ read_uint16(loaded.input, 2) = 2
    /\ loaded.bloom.entries = 5
    /\ loaded.bloom.bf = <<255>>

C5_LengthMismatch ==
    (result.call # "none" /\ result.seed.kind = "buffer"
         /\ result.entries >= 1 /\ ErrorValid(result.error))
        => IF result.seed.len # Ssize(bloom_bytes(result.entries, result.error))
           THEN /\ result.rc = -1
                /\ result.msg = "invalid data length"
                /\ Live => filter.bloom.bf = Zeros(filter.bloom.bytes)
           ELSE /\ result.rc = 0
                /\ Live
                /\ filter.bloom.bf = result.seed.data

\* C6 (SpecMembership): no false negatives.  Under add, contains, dump and
\* dump_ex, contains(x) returns true for every x that was added before, and
\* no step clears a bit of the bit array.
C6_NoFalseNegatives ==
    [][/\ \A m \in added : Filter_check(m) => answer'.found
       /\ \A b \in 0..(filter.bloom.bits - 1) :
              TestBit(filter.bloom.bf, b) => TestBit(filter'.bloom.bf, b)]_vars

\* C6 witness: both members were added, and contains was asked about one of
\* them and returned true.
C6_Witness ==
    /\ added = Members
    /\ answer.asked
    /\ answer.member \in added
    /\ answer.found

\* C7 (Spec): frame of the Filter's state.  No step of add, contains,
\* get_buffer, dump, dump_ex, load or a repeated __init__ on a Filter
\* changes its capacity, error rate, bit_count or byte length; only add
\* changes its bits; contains, dump and dump_ex change nothing of it.
C7_Frame ==
    [][(Add \/ Contains \/ Filter_get_buffer \/ dump \/ dump_ex \/ LoadDumped \/ InitAgain)
           => /\ filter'.bloom.entries = filter.bloom.entries
              /\ filter'.bloom.error = filter.bloom.error
              /\ filter'.bloom.bits = filter.bloom.bits
              /\ filter'.bloom.bytes = filter.bloom.bytes
              /\ filter'.bloom.bf # filter.bloom.bf => Add
              /\ (Contains \/ dump \/ dump_ex) => filter' = filter]_vars

\* C8 (Spec): view lifetime.  No view handed out by get_buffer or dump_ex is
\* read or written after Filter_dealloc has freed the bit array it is over.
C8_ViewLifetime == ~uaf

\* C9 (SpecCodec): dump layout.  dump returns 8 + ceil(bit_count / 8) bytes:
\* the folded CRC of the bits, the integer reciprocal of the error rate and
\* the capacity, big-endian, then the bits unchanged.
C9_DumpLayout ==
    dumped.taken
        => /\ Len(dumped.buf) = 8 + CeilDiv(dumped.of.bits, 8)
           /\ read_uint16(dumped.buf, 0) = Fold16(crc32(<<0, 0>>, dumped.of.bf))
           /\ read_uint16(dumped.buf, 2) = dumped.of.error[2] \div dumped.of.error[1]
           /\ read_uint32(dumped.buf, 4) = FromInt(dumped.of.entries)
           /\ PayloadOf(dumped.buf) = dumped.of.bf

\* C10 (SpecInit): seed buffer release.  When construction returns, no view
\* acquired on the seed object is left unreleased.
C10_SeedReleased == seedExports = 0
=============================================================================
